---- MODULE Spec2Model ----
(***************************************************************************)
(* Model of the recurring-job scheduler of src/worker/routine-job.ts:      *)
(* the RoutineJob class (constructor, shouldRun, matchesSchedule,          *)
(* matchesField, getName, run), and of the POST handler of the Stripe      *)
(* webhook of src/app/api/stripe/webhook/route.ts.                         *)
(*                                                                         *)
(* Strings are sequences of one-character strings, so that split,          *)
(* includes, Number, parseInt and toString are computed as JavaScript      *)
(* computes them.  A Date is its getTime() value in milliseconds, counted  *)
(* from the local midnight that starts Sunday 2023-01-01 (only differences *)
(* of getTime() values are used by the code); the local calendar has a     *)
(* fixed UTC offset.                                                       *)
(***************************************************************************)
EXTENDS Integers, Sequences, FiniteSets

VARIABLES
    jobs,     \* name -> the RoutineJob object constructed under that name
    op,       \* the method that ran last
    callee,   \* the name of the job the last method ran for
    now,      \* the Date read by the last `new Date()` in shouldRun
    ret,      \* the value returned by the last shouldRun call
    thrown,   \* the message of the Error thrown by the last call, or NoError
    fired,    \* name -> the calls that returned true, in call order: the Date
              \* read (at) and the kinds of rejected polls since the fire before (after)
    rejects,  \* name -> the kinds of rejected polls seen since the last fire
    args,     \* the arguments of the last matchesField call made on its own
    pending,  \* name -> the number of true returns of shouldRun whose run() has
              \* not been executed yet
    logged,   \* name -> what the last run() of the job read and logged
    previous, \* name -> the lastRun the job had when the process last stopped
    expression, \* the cronExpression passed to the last constructor call
    request,  \* the request of the last webhook POST and what its steps did
    handled,  \* the event handlers the last webhook POST invoked, in order
    response  \* the response the last webhook POST returned

vars == <<jobs, op, callee, now, ret, thrown, fired, rejects, args,
          pending, logged, previous, expression, request, handled, response>>

----------------------------------------------------------------------------
(* Strings *)

Digits == <<"0", "1", "2", "3", "4", "5", "6", "7", "8", "9">>

IsDigit(c) == \E i \in 1..10 : Digits[i] = c

DigitValue(c) == (CHOOSE i \in 1..10 : Digits[i] = c) - 1

IsSpace(c) == c \in {" ", "\t"}

\* A JavaScript number is <<n>> for the integer n, and NaN is the empty tuple.
NaN == <<>>

Num(n) == <<n>>

\* String.prototype.includes for a one-character needle.
Includes(s, c) == \E i \in 1..Len(s) : s[i] = c

\* String.prototype.split for a one-character separator: every occurrence
\* of the separator ends a token, empty tokens are kept.
Split(s, sep) ==
    LET RECURSIVE go(_, _, _)
        go(i, cur, acc) ==
            IF i > Len(s) THEN Append(acc, cur)
            ELSE IF s[i] = sep THEN go(i + 1, <<>>, Append(acc, cur))
            ELSE go(i + 1, Append(cur, s[i]), acc)
    IN go(1, <<>>, <<>>)

\* Array.prototype.includes on an array of strings.
ArrayIncludes(arr, s) == \E i \in 1..Len(arr) : arr[i] = s

\* The decimal value of a sequence of digits.
RECURSIVE DecimalValue(_)
DecimalValue(s) ==
    IF Len(s) = 0 THEN 0
    ELSE 10 * DecimalValue(SubSeq(s, 1, Len(s) - 1)) + DigitValue(s[Len(s)])

\* Number.prototype.toString of a non-negative integer.
RECURSIVE toString(_)
toString(n) ==
    IF n < 10 THEN <<Digits[n + 1]>>
    ELSE Append(toString(n \div 10), Digits[(n % 10) + 1])

\* s without its leading white space.
RECURSIVE TrimStart(_)
TrimStart(s) ==
    IF Len(s) > 0 /\ IsSpace(s[1]) THEN TrimStart(Tail(s)) ELSE s

\* s without its trailing white space.
RECURSIVE TrimEnd(_)
TrimEnd(s) ==
    IF Len(s) > 0 /\ IsSpace(s[Len(s)]) THEN TrimEnd(SubSeq(s, 1, Len(s) - 1)) ELSE s

\* The longest prefix of s made of digits.
RECURSIVE DigitPrefix(_)
DigitPrefix(s) ==
    IF Len(s) > 0 /\ IsDigit(s[1]) THEN <<s[1]>> \o DigitPrefix(Tail(s)) ELSE <<>>

\* Number(s), on strings over digits, white space, "*", ",", "/" and the
\* letters "a", "b", "c" (no sign, point, exponent or radix prefix): white space is trimmed, the empty string is 0, a
\* string of digits is its decimal value, anything else is NaN.
Number(s) ==
    LET t == TrimEnd(TrimStart(s))
    IN IF Len(t) = 0 THEN Num(0)
       ELSE IF \A i \in 1..Len(t) : IsDigit(t[i]) THEN Num(DecimalValue(t))
       ELSE NaN

\* parseInt(s), on the same strings: leading white space is skipped, the
\* longest digit prefix is read, and no digit at all gives NaN.
ParseInt(s) ==
    LET p == DigitPrefix(TrimStart(s))
    IN IF Len(p) = 0 THEN NaN ELSE Num(DecimalValue(p))

\* a <= b on JavaScript numbers: false as soon as one side is NaN.
LessEq(a, b) == a # NaN /\ b # NaN /\ a[1] <= b[1]

\* a === b on JavaScript numbers: NaN equals nothing.
StrictEq(a, b) == a # NaN /\ b # NaN /\ a = b

----------------------------------------------------------------------------
(* Dates *)

MinuteMs == 60 * 1000
HourMs   == 60 * MinuteMs
DayMs    == 24 * HourMs

\* The calendar day that contains timestamp 0: Sunday 2023-01-01
\* (month is zero-based and day 0 is Sunday, as Date reports them).
Origin == [year |-> 2023, month |-> 0, date |-> 1, day |-> 0]

IsLeap(y) == (y % 4 = 0 /\ y % 100 # 0) \/ y % 400 = 0

DaysInMonth(y, m) ==
    IF m = 1 THEN (IF IsLeap(y) THEN 29 ELSE 28)
    ELSE IF m \in {3, 5, 8, 10} THEN 30
    ELSE 31

NextDay(c) ==
    IF c.date < DaysInMonth(c.year, c.month)
        THEN [c EXCEPT !.date = c.date + 1, !.day = (c.day + 1) % 7]
    ELSE IF c.month < 11
        THEN [c EXCEPT !.date = 1, !.month = c.month + 1, !.day = (c.day + 1) % 7]
    ELSE [year |-> c.year + 1, month |-> 0, date |-> 1, day |-> (c.day + 1) % 7]

PrevDay(c) ==
    IF c.date > 1
        THEN [c EXCEPT !.date = c.date - 1, !.day = (c.day + 6) % 7]
    ELSE IF c.month > 0
        THEN [c EXCEPT !.date = DaysInMonth(c.year, c.month - 1),
                       !.month = c.month - 1, !.day = (c.day + 6) % 7]
    ELSE [year |-> c.year - 1, month |-> 11, date |-> 31, day |-> (c.day + 6) % 7]

\* The day n days after c, or -n days before it.
RECURSIVE AddDays(_, _)
AddDays(c, n) ==
    IF n = 0 THEN c
    ELSE IF n > 0 THEN AddDays(NextDay(c), n - 1)
    ELSE AddDays(PrevDay(c), n + 1)

\* The local calendar day of timestamp t.
CalendarDay(t) == AddDays(Origin, t \div DayMs)

getMinutes(t) == (t \div MinuteMs) % 60
getHours(t)   == (t \div HourMs) % 24
getDate(t)    == CalendarDay(t).date
getMonth(t)   == CalendarDay(t).month

getDayMondayFirst(t) == (CalendarDay(t).day + 6) % 7

getDaySundaySeven(t) == IF CalendarDay(t).day = 0 THEN 7 ELSE CalendarDay(t).day

getDay(t) == CalendarDay(t).day

----------------------------------------------------------------------------
(* RoutineJob *)

\* `lastRun: Date | null`: the empty tuple is null, <<t>> is the Date t.
Null == <<>>

DedupWindow == 60000

NoError == "none"

InvalidCron == "Invalid cron expression"

\* The characters of the message of the Error of line 19.
InvalidCronText ==
    <<"I", "n", "v", "a", "l", "i", "d", " ", "c", "r", "o", "n", " ",
      "e", "x", "p", "r", "e", "s", "s", "i", "o", "n">>

\* error.message, character by character.
MessageText(error) == IF error = InvalidCron THEN InvalidCronText ELSE <<>>

\* The maximal runs of characters of s that are not white space.
SplitWhiteSpace(s) ==
    LET RECURSIVE go(_, _, _)
        go(i, cur, acc) ==
            IF i > Len(s) THEN (IF cur = <<>> THEN acc ELSE Append(acc, cur))
            ELSE IF IsSpace(s[i])
                 THEN go(i + 1, <<>>, IF cur = <<>> THEN acc ELSE Append(acc, cur))
            ELSE go(i + 1, Append(cur, s[i]), acc)
    IN go(1, <<>>, <<>>)

CronPartsWhiteSpace(cronExpression) == SplitWhiteSpace(cronExpression)

\* constructor, lines 17-20: the expression is split on single spaces and
\* must give exactly five parts.
CronParts(cronExpression) == Split(cronExpression, " ")

ValidCronShortCount(cronParts) == Len(cronParts) >= 5

ValidCronAtMost(cronParts) == Len(cronParts) <= 5

ValidCron(cronParts) == Len(cronParts) = 5

\* The value `undefined`: a tuple that is no string, its one element
\* not being a character.
Undefined == <<"undefined">>

\* arr[i - 1] of a JavaScript array: undefined past the end.
At(arr, i) == IF i <= Len(arr) THEN arr[i] ELSE Undefined

\* The TypeError of a method call on undefined.
TypeError == "TypeError"

NewRoutineJobRestored(name, cronParts) ==
    [name    |-> name,
     lastRun |-> IF name \in DOMAIN previous THEN previous[name] ELSE Null,
     minute  |-> At(cronParts, 1),
     hour    |-> At(cronParts, 2),
     day     |-> At(cronParts, 3),
     month   |-> At(cronParts, 4),
     weekday |-> At(cronParts, 5)]

\* constructor, lines 14-26 and the field initialiser of line 6.
NewRoutineJob(name, cronParts) ==
    [name    |-> name,
     lastRun |-> Null,
     minute  |-> At(cronParts, 1),
     hour    |-> At(cronParts, 2),
     day     |-> At(cronParts, 3),
     month   |-> At(cronParts, 4),
     weekday |-> At(cronParts, 5)]

MatchesRangeHalfOpen(value, pattern) ==
    LET bounds == Split(pattern, "-")
        start  == Number(bounds[1])
        end    == Number(bounds[2])
    IN LessEq(start, Num(value)) /\ LessEq(Num(value), end) /\ Num(value) # end

\* matchesField, lines 78-81: `[start, end] = pattern.split("-").map(Number)`.
MatchesRange(value, pattern) ==
    LET bounds == Split(pattern, "-")
        start  == Number(bounds[1])
        end    == Number(bounds[2])
    IN LessEq(start, Num(value)) /\ LessEq(Num(value), end)

\* String.prototype.includes for a needle of any length.
IncludesString(s, needle) ==
    \E i \in 1..(Len(s) - Len(needle) + 1) : SubSeq(s, i, i + Len(needle) - 1) = needle

MatchesListSubstring(value, pattern) == IncludesString(pattern, toString(value))

MatchesListNumeric(value, pattern) ==
    \E i \in 1..Len(Split(pattern, ",")) :
        StrictEq(ParseInt(Split(pattern, ",")[i]), Num(value))

\* matchesField, lines 74-76.
MatchesList(value, pattern) == ArrayIncludes(Split(pattern, ","), toString(value))

matchesFieldStarAsNumber(value, pattern) ==
    IF Includes(pattern, ",") THEN MatchesList(value, pattern)
    ELSE IF Includes(pattern, "-") THEN MatchesRange(value, pattern)
    ELSE StrictEq(ParseInt(pattern), Num(value))

matchesFieldRangeFirst(value, pattern) ==
    IF pattern = <<"*">> THEN TRUE
    ELSE IF Includes(pattern, "-") THEN MatchesRange(value, pattern)
    ELSE IF Includes(pattern, ",") THEN MatchesList(value, pattern)
    ELSE StrictEq(ParseInt(pattern), Num(value))

matchesFieldStarPrefix(value, pattern) ==
    IF Len(pattern) > 0 /\ pattern[1] = "*" THEN TRUE
    ELSE IF Includes(pattern, ",") THEN MatchesList(value, pattern)
    ELSE IF Includes(pattern, "-") THEN MatchesRange(value, pattern)
    ELSE StrictEq(ParseInt(pattern), Num(value))

\* matchesField, lines 69-84.
matchesField(value, pattern) ==
    IF pattern = <<"*">> THEN TRUE
    ELSE IF Includes(pattern, ",") THEN MatchesList(value, pattern)
    ELSE IF Includes(pattern, "-") THEN MatchesRange(value, pattern)
    ELSE StrictEq(ParseInt(pattern), Num(value))

matchesScheduleDayOrWeekday(job, dt) ==
    /\ matchesField(getMinutes(dt), job.minute)
    /\ matchesField(getHours(dt), job.hour)
    /\ matchesField(getMonth(dt) + 1, job.month)
    /\ \/ matchesField(getDate(dt), job.day)
       \/ matchesField(getDay(dt), job.weekday)

matchesScheduleZeroBasedMonth(job, dt) ==
    /\ matchesField(getMinutes(dt), job.minute)
    /\ matchesField(getHours(dt), job.hour)
    /\ matchesField(getDate(dt), job.day)
    /\ matchesField(getMonth(dt), job.month)
    /\ matchesField(getDay(dt), job.weekday)

\* matchesSchedule, lines 45-67: the first field that does not match
\* returns false.
matchesSchedule(job, dt) ==
    IF ~matchesField(getMinutes(dt), job.minute) THEN FALSE
    ELSE IF ~matchesField(getHours(dt), job.hour) THEN FALSE
    ELSE IF ~matchesField(getDate(dt), job.day) THEN FALSE
    ELSE IF ~matchesField(getMonth(dt) + 1, job.month) THEN FALSE
    ELSE IF ~matchesField(getDay(dt), job.weekday) THEN FALSE
    ELSE TRUE

\* matchesField throws when the pattern is not a string: `pattern === "*"`
\* (line 70) is false and `pattern.includes` (line 74) is a call on undefined.
matchesFieldThrows(value, pattern) == pattern = Undefined

\* matchesSchedule throws when it reaches a field whose matchesField
\* throws, every field before it having matched.
matchesScheduleThrows(job, dt) ==
    IF matchesFieldThrows(getMinutes(dt), job.minute) THEN TRUE
    ELSE IF ~matchesField(getMinutes(dt), job.minute) THEN FALSE
    ELSE IF matchesFieldThrows(getHours(dt), job.hour) THEN TRUE
    ELSE IF ~matchesField(getHours(dt), job.hour) THEN FALSE
    ELSE IF matchesFieldThrows(getDate(dt), job.day) THEN TRUE
    ELSE IF ~matchesField(getDate(dt), job.day) THEN FALSE
    ELSE IF matchesFieldThrows(getMonth(dt) + 1, job.month) THEN TRUE
    ELSE IF ~matchesField(getMonth(dt) + 1, job.month) THEN FALSE
    ELSE matchesFieldThrows(getDay(dt), job.weekday)

GuardPassesAtWindow(lastRun, t) == lastRun = Null \/ t - lastRun[1] >= DedupWindow

GuardPassesLate(lastRun, t) == lastRun = Null \/ t - lastRun[1] > DedupWindow + 1

GuardPassesOnlyFresh(lastRun, t) == lastRun = Null

GuardPassesHalfWindow(lastRun, t) == lastRun = Null \/ 2 * (t - lastRun[1]) > DedupWindow

GuardPassesSeconds(lastRun, t) == lastRun = Null \/ t - lastRun[1] > 60

GuardPassesEitherWay(lastRun, t) ==
    \/ lastRun = Null
    \/ t - lastRun[1] > DedupWindow
    \/ lastRun[1] - t > DedupWindow

GuardPassesOtherMinute(lastRun, t) ==
    lastRun = Null \/ t \div MinuteMs # lastRun[1] \div MinuteMs

\* shouldRun, lines 32-35: the condition of the outer if.
GuardPasses(lastRun, t) == lastRun = Null \/ t - lastRun[1] > DedupWindow

shouldRunWhenIdle(job, t) ==
    /\ pending[job.name] = 0
    /\ GuardPasses(job.lastRun, t)
    /\ matchesSchedule(job, t)

\* shouldRun, lines 32-42: the value returned when `new Date()` is t.
shouldRun(job, t) == GuardPasses(job.lastRun, t) /\ matchesSchedule(job, t)

\* shouldRun throws what matchesSchedule throws, when the guard lets it run.
shouldRunThrows(job, t) == GuardPasses(job.lastRun, t) /\ matchesScheduleThrows(job, t)

LastRunAfterEagerWrite(job, t) ==
    IF GuardPasses(job.lastRun, t) THEN <<t>> ELSE job.lastRun

\* shouldRun, line 37: lastRun is assigned only on the path that returns true.
LastRunAfter(job, t) == IF shouldRun(job, t) THEN <<t>> ELSE job.lastRun

JobsAfterShouldRunShared(js, name, t) ==
    [n \in DOMAIN js |->
        [js[n] EXCEPT !.lastRun = IF shouldRun(js[name], t) THEN <<t>> ELSE @]]

JobsAfterShouldRunConsumes(js, name, t) ==
    [js EXCEPT ![name] =
        IF shouldRun(js[name], t)
        THEN [@ EXCEPT !.lastRun = <<t>>, !.minute = toString(getMinutes(t))]
        ELSE @]

\* shouldRun, lines 29-43: the objects after a call on the job `name`; the
\* one assignment of the method is `this.lastRun = now` (line 37).
JobsAfterShouldRun(js, name, t) ==
    [js EXCEPT ![name].lastRun = LastRunAfter(js[name], t)]

\* getName, lines 86-88.
getName(job) == job.name

\* process.env.AGENT_ENVIRONMENT when the variable is not set.
EnvUnset == "undefined"

\* run, lines 91-105: the messages passed to logger.info.
RunMessages(name, environment) ==
    IF environment # "production"
    THEN <<[text |-> "Running Routine Job", job |-> name],
           [text |-> "Skipping routine job - not in production environment",
            job |-> name,
            current |-> IF environment = EnvUnset THEN "unknown" ELSE environment]>>
    ELSE <<[text |-> "Running Routine Job", job |-> name],
           [text |-> "execution placeholder - workflow integration removed",
            job |-> name]>>

LastRunAfterSuppressedRun(job, environment) ==
    IF environment # "production" THEN Null ELSE job.lastRun

\* run, lines 90-106: no statement of run assigns lastRun.
LastRunAfterRun(job, environment) == job.lastRun

----------------------------------------------------------------------------
(* The inputs: cron expressions, job names and clock readings *)

\* "0 9 * * 1": Mondays 09:00.
CronMonNine == <<"0", " ", "9", " ", "*", " ", "*", " ", "1">>

\* "0 9 2 1 1": 2 January when a Monday, 09:00.
CronJanSecond == <<"0", " ", "9", " ", "2", " ", "1", " ", "1">>

\* "1 9 2 1 1": as CronJanSecond but minute 1.
CronMinuteOne == <<"1", " ", "9", " ", "2", " ", "1", " ", "1">>

\* "0 8 2 1 1": as CronJanSecond but hour 8.
CronHourEight == <<"0", " ", "8", " ", "2", " ", "1", " ", "1">>

\* "0 9 3 1 1": as CronJanSecond but day-of-month 3.
CronDayThree == <<"0", " ", "9", " ", "3", " ", "1", " ", "1">>

\* "0 9 2 2 1": as CronJanSecond but month 2.
CronMonthTwo == <<"0", " ", "9", " ", "2", " ", "2", " ", "1">>

\* "0 9 2 1 2": as CronJanSecond but weekday 2.
CronWeekdayTwo == <<"0", " ", "9", " ", "2", " ", "1", " ", "2">>

\* "* * * * *": every minute.
CronEveryMinute == <<"*", " ", "*", " ", "*", " ", "*", " ", "*">>

\* "0,1 9-17 * * 1-5": minutes 0 and 1 of the hours 9 to 17, Monday to Friday.
CronOfficeHours == <<"0", ",", "1", " ", "9", "-", "1", "7", " ", "*", " ", "*", " ", "1", "-", "5">>

\* "0 9 * *": four fields.
CronFourFields == <<"0", " ", "9", " ", "*", " ", "*">>

\* "0 9 * * 1 *": six fields.
CronSixFields == <<"0", " ", "9", " ", "*", " ", "*", " ", "1", " ", "*">>

\* "0  9 * * 1": five fields, two spaces after the first.
CronDoubleSpace == <<"0", " ", " ", "9", " ", "*", " ", "*", " ", "1">>

\* "*/5 * * * *": a step in the minute field.
CronStepMinute == <<"*", "/", "5", " ", "*", " ", "*", " ", "*", " ", "*">>

\* "* abc * * *": a word in the hour field.
CronWordHour == <<"*", " ", "a", "b", "c", " ", "*", " ", "*", " ", "*">>

\* "* * 5- * *": a range without its end in the day-of-month field.
CronOpenRange == <<"*", " ", "*", " ", "5", "-", " ", "*", " ", "*">>

\* "* * * * -": a lone dash in the weekday field.
CronLoneDash == <<"*", " ", "*", " ", "*", " ", "*", " ", "-">>

\* " 9 * * *": four fields after a leading space, which split(" ") makes
\* five parts, the first one empty.
CronLeadingSpace == <<" ", "9", " ", "*", " ", "*", " ", "*">>

\* Five parts that are not all numbers, lists, ranges or "*".
OddExpressions ==
    {CronStepMinute, CronWordHour, CronOpenRange, CronLoneDash, CronLeadingSpace}

WellFormedExpressions ==
    {CronMonNine,
     CronJanSecond,
     CronMinuteOne,
     CronHourEight,
     CronDayThree,
     CronMonthTwo,
     CronWeekdayTwo,
     CronEveryMinute,
     CronOfficeHours}

MalformedExpressions == {CronFourFields, CronSixFields, CronDoubleSpace}

Expressions == WellFormedExpressions \cup OddExpressions \cup MalformedExpressions

JobNames == {"daily"}

\* Clock readings cluster around Monday 2023-01-02 09:00:00.000: every
\* multiple of half the de-duplication window up to MaxTick of them, each
\* with the millisecond before and after, and 09:01:05.
MaxTick == 2

HalfWindow == DedupWindow \div 2

MondayNine == DayMs + 9 * HourMs

TuesdayNine == MondayNine + DayMs

NextMondayNine == MondayNine + 7 * DayMs

Offsets == {k * HalfWindow + e : k \in 0..MaxTick, e \in {-1, 0, 1}} \cup {65000}

Times ==
    {MondayNine + o : o \in Offsets}
    \cup {TuesdayNine}
    \cup {NextMondayNine, NextMondayNine + HalfWindow, NextMondayNine + DedupWindow + 1}

----------------------------------------------------------------------------
(* The state machine *)

NoRejects == [guard |-> FALSE, mismatch |-> FALSE]

NoArgs == [value |-> 0, pattern |-> <<>>]

NoRun == [environment |-> "none", messages |-> <<>>]

NoRequest == [method |-> "none"]

NoResponse == [status |-> 0, body |-> "none"]

\* f with x mapped to v.
Put(f, x, v) == [y \in DOMAIN f \cup {x} |-> IF y = x THEN v ELSE f[y]]

Init ==
    /\ jobs = [n \in {} |-> Null]
    /\ op = "none"
    /\ callee = "none"
    /\ now = 0
    /\ ret = FALSE
    /\ thrown = NoError
    /\ fired = [n \in {} |-> <<>>]
    /\ rejects = [n \in {} |-> NoRejects]
    /\ args = NoArgs
    /\ pending = [n \in {} |-> 0]
    /\ logged = [n \in {} |-> NoRun]
    /\ previous = [n \in {} |-> Null]
    /\ expression = <<>>
    /\ request = NoRequest
    /\ handled = <<>>
    /\ response = NoResponse

\* new RoutineJob(name, cronExpression, logger): a job is constructed once
\* under its name; when the constructor throws, no object exists.
Construct(name, cronExpression) ==
    /\ name \notin DOMAIN jobs
    /\ op' = "constructor"
    /\ callee' = name
    /\ expression' = cronExpression
    /\ IF ValidCron(CronParts(cronExpression))
       THEN /\ jobs' = Put(jobs, name, NewRoutineJob(name, CronParts(cronExpression)))
            /\ fired' = Put(fired, name, <<>>)
            /\ rejects' = Put(rejects, name, NoRejects)
            /\ pending' = Put(pending, name, 0)
            /\ logged' = Put(logged, name, NoRun)
            /\ thrown' = NoError
       ELSE /\ thrown' = InvalidCron
            /\ UNCHANGED <<jobs, fired, rejects, pending, logged>>
    /\ UNCHANGED <<now, ret, args, previous, request, handled, response>>

\* job.shouldRun() at the moment `new Date()` reads t.
ShouldRun(name, t) ==
    /\ name \in DOMAIN jobs
    /\ op' = "shouldRun"
    /\ callee' = name
    /\ now' = t
    /\ IF shouldRunThrows(jobs[name], t)
       THEN /\ thrown' = TypeError
            /\ UNCHANGED <<ret, jobs, fired, rejects, pending>>
       ELSE /\ ret' = shouldRun(jobs[name], t)
            /\ jobs' = JobsAfterShouldRun(jobs, name, t)
            /\ thrown' = NoError
            /\ fired' = [fired EXCEPT ![name] =
                            IF shouldRun(jobs[name], t)
                            THEN Append(@, [at |-> t, after |-> rejects[name]])
                            ELSE @]
            /\ rejects' = [rejects EXCEPT ![name] =
                            IF shouldRun(jobs[name], t) THEN NoRejects
                            ELSE IF GuardPasses(jobs[name].lastRun, t)
                                 THEN [@ EXCEPT !.mismatch = TRUE]
                                 ELSE [@ EXCEPT !.guard = TRUE]]
            /\ pending' = [pending EXCEPT ![name] =
                            IF shouldRun(jobs[name], t) THEN @ + 1 ELSE @]
    /\ UNCHANGED <<args, logged, previous, expression, request, handled, response>>

Next ==
    \/ \E name \in JobNames, e \in Expressions : Construct(name, e)
    \/ \E name \in JobNames, t \in Times : ShouldRun(name, t)

Spec == Init /\ [][Next]_vars

----------------------------------------------------------------------------
(* matchesField on its own: every pattern against every value *)

\* "a-b" for the numbers a and b.
RangeToken(a, b) == toString(a) \o <<"-">> \o toString(b)

\* The numbers of l joined by commas.
RECURSIVE ListToken(_)
ListToken(l) ==
    IF Len(l) = 1 THEN toString(l[1])
    ELSE toString(l[1]) \o <<",">> \o ListToken(Tail(l))

\* Range bounds: "9-17", the reversed "17-9", the one-value "5-5", "1-3"
\* and the whole minute range "0-59".
RangeBounds == {<<9, 17>>, <<17, 9>>, <<5, 5>>, <<1, 3>>, <<0, 59>>}

\* Lists: "1,15,30", "0,30" and "5,10".
Lists == {<<1, 15, 30>>, <<0, 30>>, <<5, 10>>}

\* "1-3,5" and "5,1-3": a comma and a dash in one token.
ListWithDash == <<"1", "-", "3", ",", "5">>

DashWithList == <<"5", ",", "1", "-", "3">>

\* "*/5" and "abc": neither "*", nor a list, nor a range, nor a number.
StepToken == <<"*", "/", "5">>

WordToken == <<"a", "b", "c">>

Unparseable == {StepToken, WordToken, <<>>}

\* "05,10" and "05": numbers written with a leading zero.
ZeroList == <<"0", "5", ",", "1", "0">>

ZeroNumber == <<"0", "5">>

\* "-5", "5-" and "a-5": a dash with a bound that is empty or no number.
NoStart == <<"-", "5">>

NoEnd == <<"5", "-">>

WordStart == <<"a", "-", "5">>

OpenRanges == {NoStart, NoEnd, WordStart}

FieldPatterns ==
    {<<"*">>, <<"0">>, <<"7">>, <<"1", "2">>, ListWithDash, DashWithList}
    \cup {RangeToken(r[1], r[2]) : r \in RangeBounds}
    \cup {ListToken(l) : l \in Lists}
    \cup Unparseable
    \cup {ZeroList, ZeroNumber}
    \cup OpenRanges

\* The values matchesField is called with: the calendar components lie in
\* 0..59.
MaxValue == 60

FieldValues == 0..MaxValue

\* this.matchesField(value, pattern).
MatchesField(value, pattern) ==
    /\ op' = "matchesField"
    /\ args' = [value |-> value, pattern |-> pattern]
    /\ ret' = matchesField(value, pattern)
    /\ thrown' = NoError
    /\ UNCHANGED <<jobs, callee, now, fired, rejects, pending, logged, previous>>
    /\ UNCHANGED <<expression, request, handled, response>>

NextField == \E value \in FieldValues, pattern \in FieldPatterns : MatchesField(value, pattern)

SpecField == Init /\ [][NextField]_vars

----------------------------------------------------------------------------
(* The tagged pattern of the design: Any | List | Range | Exact, chosen     *)
(* once from the token; a List is a set of integers, a Range an interval    *)
(* of integers, an Exact one integer                                        *)

\* The plain-integer parse of a list member: a non-empty string of digits
\* is its value, anything else ("1-3") is no integer.
IntegerParse(s) ==
    IF Len(s) > 0 /\ \A i \in 1..Len(s) : IsDigit(s[i]) THEN Num(DecimalValue(s)) ELSE NaN

\* The Pattern of a token: List over Range over Exact.  A list member that
\* is no integer is no member of the set; the bounds of a Range and the
\* integer of an Exact are converted as matchesField converts them.
Classify(token) ==
    IF token = <<"*">> THEN [tag |-> "Any"]
    ELSE IF Includes(token, ",")
        THEN [tag |-> "List",
              members |-> {IntegerParse(Split(token, ",")[i]) :
                              i \in 1..Len(Split(token, ","))} \ {NaN}]
    ELSE IF Includes(token, "-")
        THEN [tag |-> "Range",
              start |-> Number(Split(token, "-")[1]),
              end |-> Number(Split(token, "-")[2])]
    ELSE [tag |-> "Exact", value |-> ParseInt(token)]

\* matches(value, pattern) of the Field Matcher.
matches(value, pattern) ==
    CASE pattern.tag = "Any" -> TRUE
      [] pattern.tag = "List" -> Num(value) \in pattern.members
      [] pattern.tag = "Range" ->
            LessEq(pattern.start, Num(value)) /\ LessEq(Num(value), pattern.end)
      [] pattern.tag = "Exact" -> StrictEq(pattern.value, Num(value))

----------------------------------------------------------------------------
(* The calendar: 09:00 polls across the turn of the year 2022/2023 *)

\* "0 9 * m *": 09:00 on every day of month m.
MonthExpression(m) ==
    <<"0", " ", "9", " ", "*", " ">> \o toString(m) \o <<" ", "*">>

\* "0 9 * * w": 09:00 on weekday w.
WeekdayExpression(w) ==
    <<"0", " ", "9", " ", "*", " ", "*", " ">> \o toString(w)

\* The months 0..13 and the weekdays 0..8 as patterns, those beyond the
\* calendar's 1..12 and 0..6 included.
MonthPatterns == 0..13

WeekdayPatterns == 0..8

CalendarExpressions ==
    {MonthExpression(m) : m \in MonthPatterns}
    \cup {WeekdayExpression(w) : w \in WeekdayPatterns}

\* The polls: 09:00 on each day from DaysBefore days before Sunday
\* 2023-01-01 to DaysAfter days after it.
DaysBefore == 3

DaysAfter == 3

CalendarTimes == {d * DayMs + 9 * HourMs : d \in (0 - DaysBefore)..DaysAfter}

NextCalendar ==
    \/ \E name \in JobNames, e \in CalendarExpressions : Construct(name, e)
    \/ \E name \in JobNames, t \in CalendarTimes : ShouldRun(name, t)

SpecCalendar == Init /\ [][NextCalendar]_vars

----------------------------------------------------------------------------
(* The worker: polls, runs and restarts of the process *)

\* job.run() with process.env.AGENT_ENVIRONMENT = environment.  The body
\* has no await: it runs to its end inside the call, and the promise it
\* returns is already fulfilled with null.
Run(name, environment) ==
    /\ name \in DOMAIN jobs
    /\ op' = "run"
    /\ callee' = name
    /\ logged' = [logged EXCEPT ![name] =
                    [environment |-> environment,
                     messages |-> RunMessages(name, environment)]]
    /\ jobs' = [jobs EXCEPT ![name].lastRun = LastRunAfterRun(jobs[name], environment)]
    /\ pending' = [pending EXCEPT ![name] = IF @ > 0 THEN @ - 1 ELSE @]
    /\ thrown' = NoError
    /\ UNCHANGED <<now, ret, fired, rejects, args, previous>>
    /\ UNCHANGED <<expression, request, handled, response>>

\* job.getName().
GetName(name) ==
    /\ name \in DOMAIN jobs
    /\ op' = "getName"
    /\ callee' = name
    /\ ret' = getName(jobs[name])
    /\ thrown' = NoError
    /\ UNCHANGED <<jobs, now, fired, rejects, args, pending, logged, previous>>
    /\ UNCHANGED <<expression, request, handled, response>>

\* The process stops and starts again: every RoutineJob object is gone and
\* lastRun, kept in memory only (line 6), with it.
Restart ==
    /\ DOMAIN jobs # {}
    /\ op' = "restart"
    /\ callee' = "none"
    /\ previous' = [n \in DOMAIN previous \cup DOMAIN jobs |->
                       IF n \in DOMAIN jobs THEN jobs[n].lastRun ELSE previous[n]]
    /\ jobs' = [n \in {} |-> Null]
    /\ fired' = [n \in {} |-> <<>>]
    /\ rejects' = [n \in {} |-> NoRejects]
    /\ pending' = [n \in {} |-> 0]
    /\ logged' = [n \in {} |-> NoRun]
    /\ thrown' = NoError
    /\ UNCHANGED <<now, ret, args, expression, request, handled, response>>

Environments == {"production", "development", EnvUnset}

WorkerExpressions == {CronEveryMinute, CronMonNine}

WorkerTimes ==
    {MondayNine, MondayNine + HalfWindow, MondayNine + DedupWindow + 1, NextMondayNine}

NextWorker ==
    \/ \E name \in JobNames, e \in WorkerExpressions : Construct(name, e)
    \/ \E name \in JobNames, t \in WorkerTimes : ShouldRun(name, t)
    \/ \E name \in JobNames, environment \in Environments : Run(name, environment)
    \/ \E name \in JobNames : GetName(name)
    \/ Restart

SpecWorker == Init /\ [][NextWorker]_vars

----------------------------------------------------------------------------
(* The registry: two jobs constructed and polled side by side *)

RegistryNames == {"daily", "weekly"}

RegistryExpressions == {CronEveryMinute, CronMonNine, CronFourFields}

RegistryTimes == {MondayNine, MondayNine + HalfWindow, MondayNine + DedupWindow + 1}

NextRegistry ==
    \/ \E name \in RegistryNames, e \in RegistryExpressions : Construct(name, e)
    \/ \E name \in RegistryNames, t \in RegistryTimes : ShouldRun(name, t)

SpecRegistry == Init /\ [][NextRegistry]_vars

----------------------------------------------------------------------------
(* The minute poller: polls spaced exactly one de-duplication window apart *)

\* The polls: Monday 2023-01-02 09:00:00.000 and each of the MaxPoll
\* minutes after it, to the millisecond.
MaxPoll == 4

PollTime(k) == MondayNine + k * DedupWindow

MinutelyTimes == {PollTime(k) : k \in 0..MaxPoll}

MinutelyExpressions == {CronEveryMinute, CronOfficeHours, CronMonNine}

NextMinutely ==
    \/ \E name \in JobNames, e \in MinutelyExpressions : Construct(name, e)
    \/ \E name \in JobNames, t \in MinutelyTimes : ShouldRun(name, t)

SpecMinutely == Init /\ [][NextMinutely]_vars

----------------------------------------------------------------------------
(* Spacing: the five fields "0 9 * * 1" written with other separators *)

\* What stands between two fields: one space, two spaces or a tab; and
\* what stands before the first and after the last: nothing or a space.
Separators == {<<" ">>, <<" ", " ">>, <<"\t">>}

Padding == {<<>>, <<" ">>}

\* A spacing: the four separators, the leading and the trailing padding.
Spacings == [seps : [1..4 -> Separators], lead : Padding, trail : Padding]

\* "0 9 * * 1" written with the spacing sp.
Spaced(sp) ==
    sp.lead \o <<"0">> \o sp.seps[1] \o <<"9">> \o sp.seps[2] \o <<"*">>
        \o sp.seps[3] \o <<"*">> \o sp.seps[4] \o <<"1">> \o sp.trail

SpacedExpressions == {Spaced(sp) : sp \in Spacings}

NextSpacing ==
    \/ \E name \in JobNames, e \in SpacedExpressions : Construct(name, e)
    \/ \E name \in JobNames, t \in RegistryTimes : ShouldRun(name, t)

SpecSpacing == Init /\ [][NextSpacing]_vars

----------------------------------------------------------------------------
(* The Stripe webhook: POST of src/app/api/stripe/webhook/route.ts *)

\* A request and its surroundings: whether request.text() resolves, whether
\* STRIPE_WEBHOOK_SECRET and STRIPE_SECRET_KEY are set, the stripe-signature
\* header (missing, or valid or invalid for the body and the secret), the
\* type of the event in the body, and how handleVargasJrHired would end
\* (it returns early without an email or a contact, lines 121-135 and
\* 153-158, and rethrows what its steps throw, lines 202-205).
Requests ==
    [method : {"POST"},
     body : {"read", "fails"},
     secret : BOOLEAN,
     signature : {"missing", "valid", "invalid"},
     key : BOOLEAN,
     type : {"checkout.session.completed", "checkout.session.expired", "other"},
     hired : {"done", "skipped", "throws"}]

Received == "received"

\* The request passes the four checks of lines 17-62.
Verified(req) ==
    /\ req.body = "read"
    /\ req.secret
    /\ req.signature # "missing"
    /\ req.key
    /\ req.signature = "valid"

POSTHandledUnverified(req) ==
    IF req.body = "read" /\ req.secret /\ req.signature # "missing" /\ req.key
    THEN IF req.type = "checkout.session.completed" THEN <<"handleVargasJrHired">>
         ELSE IF req.type = "checkout.session.expired" THEN <<"handleCheckoutCanceled">>
         ELSE <<>>
    ELSE <<>>

\* POST, lines 66-83: the event handlers the switch calls.
POSTHandled(req) ==
    IF Verified(req)
    THEN IF req.type = "checkout.session.completed" THEN <<"handleVargasJrHired">>
         ELSE IF req.type = "checkout.session.expired" THEN <<"handleCheckoutCanceled">>
         ELSE <<>>
    ELSE <<>>

\* POST, lines 15-93: the response returned.
POSTResponse(req) ==
    IF req.body = "fails"
        THEN [status |-> 500, body |-> "Failed to process Stripe webhook"]
    ELSE IF ~req.secret
        THEN [status |-> 500, body |-> "Stripe webhook configuration missing"]
    ELSE IF req.signature = "missing"
        THEN [status |-> 400, body |-> "Missing stripe-signature header"]
    ELSE IF ~req.key
        THEN [status |-> 500, body |-> "Stripe configuration missing"]
    ELSE IF req.signature = "invalid"
        THEN [status |-> 400, body |-> "Webhook signature verification failed"]
    ELSE IF req.type = "checkout.session.completed" /\ req.hired = "throws"
        THEN [status |-> 500, body |-> "Failed to process checkout session"]
    ELSE [status |-> 200, body |-> Received]

\* POST(request).
POST(req) ==
    /\ op' = "POST"
    /\ request' = req
    /\ handled' = POSTHandled(req)
    /\ response' = POSTResponse(req)
    /\ UNCHANGED <<jobs, callee, now, ret, thrown, fired, rejects, args>>
    /\ UNCHANGED <<pending, logged, previous, expression>>

NextWebhook == \E req \in Requests : POST(req)

SpecWebhook == Init /\ [][NextWebhook]_vars

----------------------------------------------------------------------------
(* Properties *)

\* The last step was a shouldRun call on job n.
Polled(n) == op = "shouldRun" /\ callee = n

\* The five patterns of a job, in the order of the cron expression.
Schedule(job) == <<job.minute, job.hour, job.day, job.month, job.weekday>>

\* Every field of the job matches its calendar component of t, the month
\* counted from 1.
FieldsMatch(job, t) ==
    /\ matchesField((t \div 60000) % 60, job.minute)
    /\ matchesField((t \div 3600000) % 24, job.hour)
    /\ matchesField(CalendarDay(t).date, job.day)
    /\ matchesField(CalendarDay(t).month + 1, job.month)
    /\ matchesField(CalendarDay(t).day, job.weekday)

\* C1: a shouldRun call whose now is at most 60000 ms after lastRun (the
\* boundary 60000, 0 and negative differences included) returns false,
\* whether or not the schedule matches now.
C1_GuardDominates ==
    [][\A n \in DOMAIN jobs :
        (/\ Polled(n)'
         /\ jobs[n].lastRun # Null
         /\ now' - jobs[n].lastRun[1] <= 60000)
        => ret' = FALSE]_vars

\* A call exactly 60000 ms after the last fire, at a time the schedule
\* matches, was rejected.
C1_Witness ==
    \E n \in DOMAIN jobs :
        /\ Polled(n)
        /\ ret = FALSE
        /\ jobs[n].lastRun # Null
        /\ now - jobs[n].lastRun[1] = 60000
        /\ FieldsMatch(jobs[n], now)

\* C2: a shouldRun call at a time t where all five fields match and
\* lastRun is null or more than 60000 ms before t returns true and sets
\* lastRun to t; a call repeated at the same t then returns false.
C2_FiresOnce ==
    [][\A n \in DOMAIN jobs :
        /\ (/\ Polled(n)'
            /\ FieldsMatch(jobs[n], now')
            /\ (jobs[n].lastRun = Null \/ now' - jobs[n].lastRun[1] > 60000))
           => (ret' = TRUE /\ jobs'[n].lastRun = <<now'>>)
        /\ (Polled(n) /\ ret = TRUE /\ Polled(n)' /\ now' = now)
           => ret' = FALSE]_vars

\* The call that fired at t was repeated at t and returned false: t is in
\* the log once.
C2_Witness ==
    \E n \in DOMAIN jobs :
        /\ Polled(n)
        /\ ret = FALSE
        /\ jobs[n].lastRun = <<now>>
        /\ Len(fired[n]) = 1
        /\ fired[n][1].at = now
        /\ rejects[n].guard

\* C3: after a fire at L, a call at a matching time more than 60000 ms
\* after L returns true, whatever rejected polls came in between.
C3_Rearms ==
    [][\A n \in DOMAIN jobs :
        (/\ Polled(n)'
         /\ jobs[n].lastRun # Null
         /\ now' - jobs[n].lastRun[1] > 60000
         /\ FieldsMatch(jobs[n], now'))
        => (ret' = TRUE /\ Len(fired'[n]) = Len(fired[n]) + 1)]_vars

\* A second fire that followed both a guard-rejected and a non-matching
\* poll.
C3_Witness ==
    \E n \in DOMAIN jobs :
        /\ Polled(n)
        /\ ret = TRUE
        /\ Len(fired[n]) >= 2
        /\ fired[n][Len(fired[n])].after = [guard |-> TRUE, mismatch |-> TRUE]

\* C4: no two calls that returned true read a Date of the same calendar
\* minute.
C4_OncePerMinute ==
    \A n \in DOMAIN fired :
        \A i, j \in DOMAIN fired[n] :
            i # j => fired[n][i].at \div 60000 # fired[n][j].at \div 60000

\* A matching minute was polled again after it fired, and the second poll
\* was rejected.
C4_Witness ==
    \E n \in DOMAIN jobs :
        /\ Polled(n)
        /\ ret = FALSE
        /\ jobs[n].lastRun # Null
        /\ now > jobs[n].lastRun[1]
        /\ now \div 60000 = jobs[n].lastRun[1] \div 60000
        /\ FieldsMatch(jobs[n], now)

\* C5: any two calls that returned true, the later one read a Date more
\* than 60000 ms after the earlier one.
C5_FiresApart ==
    \A n \in DOMAIN fired :
        \A i, j \in DOMAIN fired[n] :
            i < j => fired[n][j].at - fired[n][i].at > 60000

\* Two fires 60001 ms apart with a guard-rejected poll between them.
C5_Witness ==
    \E n \in DOMAIN fired :
        /\ Len(fired[n]) = 2
        /\ fired[n][2].at - fired[n][1].at = 60001
        /\ fired[n][2].after.guard

\* C6: whatever Dates the clock returns, lastRun changes only inside a
\* shouldRun call that returns true, to the Date that call read; it is never
\* null again once set and each new value is later than the one it replaces.
C6_LastRunIncreases ==
    [][\A n \in DOMAIN jobs :
        /\ n \in DOMAIN jobs'
        /\ jobs[n].lastRun # Null => jobs'[n].lastRun # Null
        /\ jobs'[n].lastRun # jobs[n].lastRun
           => /\ Polled(n)'
              /\ ret' = TRUE
              /\ jobs'[n].lastRun = <<now'>>
              /\ jobs[n].lastRun # Null => now' > jobs[n].lastRun[1]
        /\ (Polled(n)' /\ ret' = TRUE) => jobs'[n].lastRun = <<now'>>]_vars

\* After two fires the clock went backwards, to before the first fire, and
\* lastRun kept the Date of the second fire.
C6_Witness ==
    \E n \in DOMAIN jobs :
        /\ Polled(n)
        /\ Len(fired[n]) = 2
        /\ now < fired[n][1].at
        /\ jobs[n].lastRun = <<fired[n][2].at>>
        /\ FieldsMatch(jobs[n], now)

\* C7: a shouldRun call that returns false leaves lastRun as it was, and a
\* call that returns true sets it to the Date the call read.
C7_WritesExactlyOnFire ==
    [][\A n \in DOMAIN jobs :
        Polled(n)' =>
            /\ ret' = FALSE => jobs'[n].lastRun = jobs[n].lastRun
            /\ ret' = TRUE => jobs'[n].lastRun = <<now'>>]_vars

\* A call that passed the guard and failed on a field returned false and
\* left the earlier lastRun in place.
C7_Witness ==
    \E n \in DOMAIN jobs :
        /\ Polled(n)
        /\ ret = FALSE
        /\ jobs[n].lastRun # Null
        /\ now - jobs[n].lastRun[1] > 60000
        /\ ~FieldsMatch(jobs[n], now)
        /\ rejects[n].mismatch

\* The number of fields of an expression: one more than its spaces.
FieldCount(e) == Cardinality({i \in 1..Len(e) : e[i] = " "}) + 1

C9_MondayScenario ==
    [][\A n \in DOMAIN jobs :
        (Polled(n)' /\ Schedule(jobs[n]) = <<<<"0">>, <<"9">>, <<"*">>, <<"*">>, <<"1">>>>) =>
            /\ (jobs[n].lastRun = Null /\ now' = 118800000)
               => (ret' = TRUE /\ jobs'[n].lastRun = <<118800000>>)
            /\ (jobs[n].lastRun = <<118800000>> /\ now' = 118830000)
               => (ret' = FALSE /\ jobs'[n].lastRun = <<118800000>>)
            /\ (jobs[n].lastRun = <<118800000>> /\ now' = 118865000)
               => (ret' = FALSE /\ jobs'[n].lastRun = <<118800000>>)
            /\ (jobs[n].lastRun = <<118800000>> /\ now' = 723600000)
               => (ret' = TRUE /\ jobs'[n].lastRun = <<723600000>>)]_vars

\* The job "0 9 * * 1" fired on Monday 2023-01-02 at 09:00:00, saw a
\* guard-rejected and a non-matching poll, and fired again on Monday
\* 2023-01-09 at 09:00:00.
C9_Witness ==
    \E n \in DOMAIN jobs :
        /\ Schedule(jobs[n]) = CronParts(CronMonNine)
        /\ Polled(n)
        /\ ret = TRUE
        /\ now = NextMondayNine
        /\ fired[n] = <<[at |-> MondayNine, after |-> NoRejects],
                        [at |-> NextMondayNine,
                         after |-> [guard |-> TRUE, mismatch |-> TRUE]]>>
        /\ jobs[n].lastRun = <<NextMondayNine>>
        /\ CalendarDay(MondayNine) = [year |-> 2023, month |-> 0, date |-> 2, day |-> 1]
        /\ CalendarDay(NextMondayNine) = [year |-> 2023, month |-> 0, date |-> 9, day |-> 1]

\* The expressions that differ from "0 9 2 1 1" in one field.
OneFieldOff ==
    {CronMinuteOne, CronHourEight, CronDayThree, CronMonthTwo, CronWeekdayTwo}

\* C10: a call that passes the guard returns true iff all five fields match
\* their calendar component, the month counted from 1.  On Monday 2 January
\* 09:00 "0 9 2 1 1" fires and each expression that differs from it in one
\* field does not; "0 9 3 1 1" (day-of-month of the Tuesday, weekday of the
\* Monday) never fires.
C10_AllFiveFields ==
    [][\A n \in DOMAIN jobs :
        (Polled(n)' /\ (jobs[n].lastRun = Null \/ now' - jobs[n].lastRun[1] > 60000)) =>
            /\ ret' = FieldsMatch(jobs[n], now')
            /\ (now' = 118800000 /\ Schedule(jobs[n]) = CronParts(CronJanSecond))
               => ret' = TRUE
            /\ (now' = 118800000 /\ \E e \in OneFieldOff : Schedule(jobs[n]) = CronParts(e))
               => ret' = FALSE
            /\ Schedule(jobs[n]) = CronParts(CronDayThree) => ret' = FALSE]_vars

\* "0 9 3 1 1" was polled on Monday 2 January and on Tuesday 3 January at
\* 09:00 with a null lastRun and did not fire.
C10_Witness ==
    \E n \in DOMAIN jobs :
        /\ Schedule(jobs[n]) = CronParts(CronDayThree)
        /\ Polled(n)
        /\ now = TuesdayNine
        /\ ret = FALSE
        /\ jobs[n].lastRun = Null
        /\ rejects[n].mismatch
        /\ matchesField(getDate(now), jobs[n].day)
        /\ ~matchesField(getDay(now), jobs[n].weekday)

\* The last step was a matchesField call with pattern p.
Matched(p) == op = "matchesField" /\ args.pattern = p

\* C11: the range "a-b" matches v iff a <= v <= b, both ends included; a
\* range whose start exceeds its end matches no value and no error is raised.
C11_RangeInclusive ==
    \A r \in RangeBounds :
        Matched(RangeToken(r[1], r[2])) =>
            /\ ret = (r[1] <= args.value /\ args.value <= r[2])
            /\ r[1] > r[2] => ret = FALSE
            /\ thrown = NoError

\* "9-17" matched its upper end 17.
C11_Witness ==
    /\ Matched(<<"9", "-", "1", "7">>)
    /\ args.value = 17
    /\ ret = TRUE

\* C12: a list matches v iff v is one of its comma-separated members;
\* "1,15,30" matches exactly 1, 15 and 30.
C12_ListMembership ==
    /\ \A l \in Lists :
        Matched(ListToken(l)) => ret = (\E i \in 1..Len(l) : l[i] = args.value)
    /\ Matched(<<"1", ",", "1", "5", ",", "3", "0">>) => ret = (args.value \in {1, 15, 30})

\* "1,15,30" did not match 5, a digit of its member 15.
C12_Witness ==
    /\ Matched(<<"1", ",", "1", "5", ",", "3", "0">>)
    /\ args.value = 5
    /\ ret = FALSE

\* C13: a token with a comma is a list even when it has a dash, and a token
\* with a dash and no comma is a range: "1-3,5" and "5,1-3" match 5 and none
\* of 1, 2, 3 (nor any other value), and "1-3" matches 1, 2 and 3.
C13_ListOverRangeOverExact ==
    /\ (Matched(ListWithDash) \/ Matched(DashWithList)) => ret = (args.value = 5)
    /\ Matched(<<"1", "-", "3">>) => ret = (args.value \in {1, 2, 3})

\* "1-3,5" did not match 2.
C13_Witness ==
    /\ Matched(ListWithDash)
    /\ args.value = 2
    /\ ret = FALSE

\* C14: a token that is not "*", has no comma and no dash and does not
\* parse as an integer ("*/5", "abc", the empty token) matches no value, and
\* a job whose schedule contains it fires at no time.
C14_FailClosed ==
    /\ \A p \in Unparseable : Matched(p) => ret = FALSE
    /\ \A t \in Times, l \in {Null} \cup {<<u>> : u \in Times} :
        ~shouldRun([NewRoutineJob("daily", CronParts(CronStepMinute)) EXCEPT !.lastRun = l], t)

\* "*/5" did not match 5.
C14_Witness ==
    /\ Matched(StepToken)
    /\ args.value = 5
    /\ ret = FALSE

\* C15: a shouldRun call on a constructed job throws nothing and returns a
\* boolean, whatever the five tokens and whatever the Date.
C15_EvaluateNeverThrows ==
    [][\A n \in DOMAIN jobs :
        Polled(n)' => (thrown' = NoError /\ ret' \in BOOLEAN)]_vars

\* Every field of a job with a token that is no number, list, range or "*"
\* was evaluated, and the call returned false without an error.
C15_Witness ==
    \E n \in DOMAIN jobs :
        /\ Schedule(jobs[n]) = CronParts(CronLoneDash)
        /\ Polled(n)
        /\ thrown = NoError
        /\ ret = FALSE
        /\ rejects[n].mismatch

\* The guard of shouldRun lets a call at t through.
GuardOpen(job, t) == job.lastRun = Null \/ t - job.lastRun[1] > 60000

\* The zero-based month of a Date within a month of the new year 2023:
\* December before it, January from it on.
MonthIndex(t) == IF t < 0 THEN 11 ELSE 0

\* The weekday of a Date, 0 for Sunday: timestamp 0 starts a Sunday.
WeekdayIndex(t) == (t \div 86400000) % 7

\* C16: the month pattern m in 1..12 matches exactly the Dates whose
\* zero-based month is m - 1 ("1" January, "12" December); "0" matches none.
C16_MonthOneBased ==
    [][\A n \in DOMAIN jobs : \A m \in MonthPatterns :
        (/\ Polled(n)'
         /\ Schedule(jobs[n]) = CronParts(MonthExpression(m))
         /\ GuardOpen(jobs[n], now'))
        => /\ ret' = (m \in 1..12 /\ MonthIndex(now') = m - 1)
           /\ m = 0 => ret' = FALSE]_vars

\* "0 9 * 12 *" fired on a day of December 2022 and then was rejected on a
\* day of January.
C16_Witness ==
    \E n \in DOMAIN jobs :
        /\ Schedule(jobs[n]) = CronParts(MonthExpression(12))
        /\ Polled(n)
        /\ ret = FALSE
        /\ getMonth(now) = 0
        /\ jobs[n].lastRun # Null
        /\ getMonth(jobs[n].lastRun[1]) = 11
        /\ GuardOpen(jobs[n], now)

\* C17: the weekday pattern w matches exactly the Dates of weekday w for w
\* in 0..6; "7" is no alias of Sunday: it matches no Date and its job never
\* fires.
C17_SevenIsNotSunday ==
    [][\A n \in DOMAIN jobs : \A w \in WeekdayPatterns :
        (/\ Polled(n)'
         /\ Schedule(jobs[n]) = CronParts(WeekdayExpression(w))
         /\ GuardOpen(jobs[n], now'))
        => /\ ret' = (w \in 0..6 /\ WeekdayIndex(now') = w)
           /\ w = 7 => (ret' = FALSE /\ fired'[n] = <<>>)]_vars

\* "0 9 * * 7" was polled on a Sunday at 09:00 with a null lastRun and
\* did not fire.
C17_Witness ==
    \E n \in DOMAIN jobs :
        /\ Schedule(jobs[n]) = CronParts(WeekdayExpression(7))
        /\ Polled(n)
        /\ ret = FALSE
        /\ jobs[n].lastRun = Null
        /\ getDay(now) = 0
        /\ getHours(now) = 9
        /\ getMinutes(now) = 0

\* The last step was a run() call on job n.
Ran(n) == op = "run" /\ callee = n

\* The last run() of job n was suppressed outside production.
Suppressed(n) ==
    /\ logged[n].environment \notin {"none", "production"}
    /\ Len(logged[n].messages) = 2
    /\ logged[n].messages[2].text = "Skipping routine job - not in production environment"

\* C18: run() leaves the job, lastRun included, as it was, and is suppressed
\* exactly outside production; shouldRun returns what the guard and the five
\* fields give and writes lastRun accordingly, whatever the environment of
\* the runs before; a poll within 60000 ms of a fire whose run was suppressed
\* returns false.
C18_GateLeavesBookkeeping ==
    [][\A n \in DOMAIN jobs :
        /\ Ran(n)' =>
            /\ n \in DOMAIN jobs'
            /\ jobs'[n] = jobs[n]
            /\ Suppressed(n)' = (logged'[n].environment # "production")
        /\ Polled(n)' =>
            /\ ret' = (GuardOpen(jobs[n], now') /\ FieldsMatch(jobs[n], now'))
            /\ jobs'[n].lastRun = IF ret' THEN <<now'>> ELSE jobs[n].lastRun
        /\ (/\ Polled(n)'
            /\ Suppressed(n)
            /\ jobs[n].lastRun # Null
            /\ now' - jobs[n].lastRun[1] <= 60000)
           => ret' = FALSE]_vars

\* The job fired, its run was suppressed outside production, and a poll at
\* a matching time within the window was rejected.
C18_Witness ==
    \E n \in DOMAIN jobs :
        /\ Polled(n)
        /\ ret = FALSE
        /\ Suppressed(n)
        /\ Len(fired[n]) = 1
        /\ pending[n] = 0
        /\ jobs[n].lastRun = <<fired[n][1].at>>
        /\ now > jobs[n].lastRun[1]
        /\ now - jobs[n].lastRun[1] <= 60000
        /\ FieldsMatch(jobs[n], now)

\* C19: the first poll of a newly constructed job at a matching time
\* returns true, whatever lastRun the job of that name had before the
\* process restarted; between two restarts the fires of a job stay more than
\* 60000 ms apart.
C19_RestartForgets ==
    [][\A n \in DOMAIN jobs :
        /\ (/\ op = "constructor" /\ callee = n /\ thrown = NoError
            /\ Polled(n)'
            /\ FieldsMatch(jobs[n], now'))
           => (ret' = TRUE /\ jobs'[n].lastRun = <<now'>>)
        /\ n \in DOMAIN fired' =>
            \A i, j \in DOMAIN fired'[n] :
                i < j => fired'[n][j].at - fired'[n][i].at > 60000]_vars

\* After a restart the job fired again at most 60000 ms after the fire
\* before the restart.
C19_Witness ==
    \E n \in DOMAIN jobs :
        /\ Polled(n)
        /\ ret = TRUE
        /\ n \in DOMAIN previous
        /\ previous[n] # Null
        /\ now >= previous[n][1]
        /\ now - previous[n][1] <= 60000

\* C20: shouldRun returns true at a matching time when the guard is open
\* also while runs it triggered earlier have not been executed, and a
\* further run is then due.
C20_NoWaitForRun ==
    [][\A n \in DOMAIN jobs :
        (/\ Polled(n)'
         /\ pending[n] > 0
         /\ GuardOpen(jobs[n], now')
         /\ FieldsMatch(jobs[n], now'))
        => (ret' = TRUE /\ pending'[n] = pending[n] + 1)]_vars

\* shouldRun returned true while the run of the fire before was still
\* outstanding.
C20_Witness ==
    \E n \in DOMAIN jobs :
        /\ Polled(n)
        /\ ret = TRUE
        /\ pending[n] = 2
        /\ Len(fired[n]) >= 2

\* The last step was a call of one of the three methods on job n.
Called(n) == op \in {"shouldRun", "run", "getName"} /\ callee = n

\* C24: no shouldRun, run or getName call changes the name or any of the
\* five pattern fields of a job; lastRun is the only field that changes, and
\* getName returns the name given to the constructor.
C24_ScheduleImmutable ==
    [][\A n \in DOMAIN jobs :
        Called(n)' =>
            /\ n \in DOMAIN jobs'
            /\ jobs'[n].name = jobs[n].name
            /\ Schedule(jobs'[n]) = Schedule(jobs[n])
            /\ jobs'[n] = [jobs[n] EXCEPT !.lastRun = jobs'[n].lastRun]
            /\ op' = "getName" => (ret' = n /\ jobs'[n] = jobs[n])]_vars

\* After two fires, a run and a getName call the job "0 9 * * 1" still has
\* the name and the five tokens it was constructed with.
C24_Witness ==
    \E n \in DOMAIN jobs :
        /\ op = "getName"
        /\ callee = n
        /\ ret = n
        /\ Len(fired[n]) = 2
        /\ logged[n] # NoRun
        /\ jobs[n].name = n
        /\ Schedule(jobs[n]) = CronParts(CronMonNine)
        /\ jobs[n].lastRun = <<NextMondayNine>>

\* C21: a constructor call, failed or not, leaves every job constructed
\* before as it was, lastRun included, and a shouldRun call on one job changes
\* neither the lastRun of another job nor what a call on it would return at
\* any time.
C21_JobsIndependent ==
    [][\A n \in DOMAIN jobs :
        /\ op' = "constructor" =>
            /\ n \in DOMAIN jobs'
            /\ jobs'[n] = jobs[n]
            /\ fired'[n] = fired[n]
        /\ (op' = "shouldRun" /\ callee' # n) =>
            /\ n \in DOMAIN jobs'
            /\ jobs'[n].lastRun = jobs[n].lastRun
            /\ fired'[n] = fired[n]
            /\ \A t \in RegistryTimes : shouldRun(jobs'[n], t) = shouldRun(jobs[n], t)]_vars

\* The constructor threw for one name while the job of the other name,
\* which had fired, kept its lastRun.
C21_Witness ==
    \E n \in DOMAIN jobs :
        /\ op = "constructor"
        /\ thrown = InvalidCron
        /\ callee # n
        /\ callee \notin DOMAIN jobs
        /\ expression = CronFourFields
        /\ jobs[n].lastRun # Null
        /\ Len(fired[n]) = 1

\* The names of the five fields, in the order of the expression.
FieldNames ==
    <<<<"m", "i", "n", "u", "t", "e">>,
      <<"h", "o", "u", "r">>,
      <<"d", "a", "y">>,
      <<"m", "o", "n", "t", "h">>,
      <<"w", "e", "e", "k", "d", "a", "y">>>>

\* The message names a field, by its name or by its position.
NamesAField(text) ==
    \E k \in 1..5 :
        \/ \E i \in 1..(Len(text) - Len(FieldNames[k]) + 1) :
               SubSeq(text, i, i + Len(FieldNames[k]) - 1) = FieldNames[k]
        \/ Includes(text, toString(k)[1])

\* The message quotes the expression.
QuotesExpression(text, e) ==
    \E i \in 1..(Len(text) - Len(e) + 1) : SubSeq(text, i, i + Len(e) - 1) = e

\* C22: the error the constructor throws for a malformed expression
\* identifies the field that is wrong and quotes the expression.
C22_ErrorIdentifiesField ==
    (op = "constructor" /\ thrown # NoError) =>
        /\ NamesAField(MessageText(thrown))
        /\ QuotesExpression(MessageText(thrown), expression)

\* The job's schedule is "* * * * *".
EveryMinute(job) == Schedule(job) = <<<<"*">>, <<"*">>, <<"*">>, <<"*">>, <<"*">>>>

\* C23: the pattern "*" matches every value, the schedule "* * * * *"
\* matches every Date, and a shouldRun call on it returns true whenever the
\* guard lets the call through.
C23_AnyMatchesAll ==
    [][\A n \in DOMAIN jobs :
        (Polled(n)' /\ EveryMinute(jobs[n])) =>
            /\ \A v \in FieldValues : matchesField(v, <<"*">>)
            /\ matchesSchedule(jobs[n], now')
            /\ ret' = GuardOpen(jobs[n], now')
            /\ GuardOpen(jobs[n], now') => jobs'[n].lastRun = <<now'>>]_vars

\* "* * * * *" fired on a Monday, on the Tuesday after it and on the Monday
\* a week later.
C23_Witness ==
    \E n \in DOMAIN jobs :
        /\ EveryMinute(jobs[n])
        /\ Polled(n)
        /\ ret = TRUE
        /\ Len(fired[n]) = 3
        /\ getDay(fired[n][1].at) = 1
        /\ fired[n][2].at = TuesdayNine
        /\ now = NextMondayNine

\* C26: a call at a matching time in another calendar minute than the last
\* fire, at most 60000 ms after it, returns false; "* * * * *" polled every
\* 60000 ms from a null lastRun returns true, false, true, false in turn:
\* the poll one window after a fire is rejected and keeps lastRun, the poll
\* two windows after it fires.
C26_ElapsedTimeOnly ==
    [][\A n \in DOMAIN jobs :
        Polled(n)' =>
            /\ (/\ jobs[n].lastRun # Null
                /\ now' \div 60000 # jobs[n].lastRun[1] \div 60000
                /\ now' >= jobs[n].lastRun[1]
                /\ now' - jobs[n].lastRun[1] <= 60000
                /\ FieldsMatch(jobs[n], now'))
               => ret' = FALSE
            /\ EveryMinute(jobs[n]) =>
                /\ jobs[n].lastRun = Null => ret' = TRUE
                /\ \A k \in 0..MaxPoll :
                    jobs[n].lastRun = <<PollTime(k)>> =>
                        /\ now' = PollTime(k + 1)
                           => (ret' = FALSE /\ jobs'[n].lastRun = <<PollTime(k)>>)
                        /\ now' = PollTime(k + 2)
                           => (ret' = TRUE /\ jobs'[n].lastRun = <<PollTime(k + 2)>>)]_vars

\* "* * * * *" polled at 09:00, 09:01, 09:02 and 09:03 sharp fired at 09:00
\* and 09:02 and was rejected by the guard at 09:01 and 09:03.
C26_Witness ==
    \E n \in DOMAIN jobs :
        /\ EveryMinute(jobs[n])
        /\ Polled(n)
        /\ ret = FALSE
        /\ now = PollTime(3)
        /\ fired[n] = <<[at |-> PollTime(0), after |-> NoRejects],
                        [at |-> PollTime(2),
                         after |-> [guard |-> TRUE, mismatch |-> FALSE]]>>
        /\ rejects[n] = [guard |-> TRUE, mismatch |-> FALSE]

\* The spacing has a run of two spaces, a leading or a trailing space.
ExtraSpaces(sp) ==
    \/ \E i \in 1..4 : sp.seps[i] = <<" ", " ">>
    \/ sp.lead = <<" ">>
    \/ sp.trail = <<" ">>

\* The spacing has a tab between two fields.
Tabs(sp) == \E i \in 1..4 : sp.seps[i] = <<"\t">>

\* C27 as stated: the five fields written with a run of two spaces, with
\* tabs, or with a leading or trailing space are rejected.
C27_AnyOddSpacingRejected ==
    \A sp \in Spacings :
        (op = "constructor" /\ expression = Spaced(sp) /\ (ExtraSpaces(sp) \/ Tabs(sp)))
            => thrown = InvalidCron

\* C27, amended: the constructor splits on single spaces only.  The five
\* fields written with runs of two spaces or with a leading or trailing space
\* and no tab, or with tabs and no such space, do not give five tokens and
\* are rejected; an expression is rejected exactly when the number of its
\* spaces is not 4, so a tab between two fields makes up for one extra space.
C27_SingleSpacesOnly ==
    \A sp \in Spacings :
        (op = "constructor" /\ expression = Spaced(sp)) =>
            /\ (ExtraSpaces(sp) /\ ~Tabs(sp)) => thrown = InvalidCron
            /\ (Tabs(sp) /\ ~ExtraSpaces(sp)) => thrown = InvalidCron
            /\ (thrown = InvalidCron) = (FieldCount(Spaced(sp)) # 5)
            /\ thrown = InvalidCron => DOMAIN jobs = {}

\* The constructor threw for "0  9 * * 1 ", with two spaces after the
\* first field and a space after the last.
C27_Witness ==
    /\ op = "constructor"
    /\ expression = <<"0", " ", " ", "9", " ", "*", " ", "*", " ", "1", " ">>
    /\ thrown = InvalidCron
    /\ DOMAIN jobs = {}

\* C28: a list matches v iff the decimal string of v is one of its
\* comma-separated tokens, character for character, while a token without
\* comma and dash matches v iff it parses to v: "05,10" matches 10 and not
\* 5, and "05" matches 5.
C28_ListTextualExactNumeric ==
    /\ Matched(ZeroList) => ret = (args.value = 10)
    /\ Matched(ZeroNumber) => ret = (args.value = 5)
    /\ \A p \in {ZeroList, ListWithDash, DashWithList} \cup {ListToken(l) : l \in Lists} :
        Matched(p) =>
            ret = (\E i \in 1..Len(Split(p, ",")) : Split(p, ",")[i] = toString(args.value))

\* "05,10" did not match 5.
C28_Witness ==
    /\ Matched(ZeroList)
    /\ args.value = 5
    /\ ret = FALSE

\* C29: a token with a dash and no comma whose start or end is empty or no
\* number ("a-5", "5-", "-5") matches no value.
C29_OpenRangeFailsClosed ==
    \A p \in OpenRanges : Matched(p) => ret = FALSE

\* C25: for every token and every value, matching on the Pattern the
\* token is classified into once (List over Range over Exact) gives what
\* matchesField returns from the raw string.
C25_VariantEquivalent ==
    op = "matchesField" => ret = matches(args.value, Classify(args.pattern))

\* C30: POST calls an event handler only when the webhook secret, the
\* stripe-signature header and the secret key are present and the signature
\* is verified; a missing secret or key gives 500 and a missing or invalid
\* signature 400, each without a handler call; {received: true} is returned
\* only when every check passed and the handler called did not throw.
C30_HandlesVerifiedOnly ==
    op = "POST" =>
        /\ handled # <<>> =>
            (request.secret /\ request.key /\ request.signature = "valid")
        /\ request.body = "read" =>
            /\ ~request.secret => (response.status = 500 /\ handled = <<>>)
            /\ (request.secret /\ request.signature = "missing")
               => (response.status = 400 /\ handled = <<>>)
            /\ (request.secret /\ request.signature # "missing" /\ ~request.key)
               => (response.status = 500 /\ handled = <<>>)
            /\ (request.secret /\ request.key /\ request.signature = "invalid")
               => (response.status = 400 /\ handled = <<>>)
        /\ response.body = "received" =>
            /\ response.status = 200
            /\ request.body = "read"
            /\ request.secret /\ request.key /\ request.signature = "valid"
            /\ ~(handled = <<"handleVargasJrHired">> /\ request.hired = "throws")
        /\ response.status = 200 => response.body = "received"

\* A checkout.session.completed event with every setting present and a
\* signature that does not verify got 400 and no handler was called.
C30_Witness ==
    /\ op = "POST"
    /\ request.body = "read"
    /\ request.secret
    /\ request.key
    /\ request.signature = "invalid"
    /\ request.type = "checkout.session.completed"
    /\ response = [status |-> 400, body |-> "Webhook signature verification failed"]
    /\ handled = <<>>

====
